---- MODULE Spec2Model ----
(***************************************************************************)
(* wandb/sdk/launch/docker.py as a state machine.                          *)
(*                                                                         *)
(* Three entry points are modelled, each with its own specification:       *)
(*   SpecCmd    get_docker_command                                         *)
(*   SpecBuild  build_docker_image and _create_docker_build_ctx            *)
(*   SpecGen    generate_docker_image (one caller: SpecGen; two            *)
(*              concurrent callers in one process: SpecRace)               *)
(*                                                                         *)
(* A Python str is a sequence of chunks.  A chunk is a TLA+ string that    *)
(* stands for either one character the code looks at (":", "/", "'",       *)
(* " ", "\n", ...) or a run of characters it never takes apart.            *)
(* Concatenation is \o.  Other Python values are tagged records.           *)
(***************************************************************************)
EXTENDS Integers, Sequences, FiniteSets, TLC

VARIABLES
    \* get_docker_command
    cpc,        \* position: "start", "args", "returned", "raised"
    cin,        \* the call's arguments and the ambient settings it reads
    cmd,        \* the local list cmd (Python values)
    ci,         \* how many docker_args entries the loop has consumed
    cres,       \* the returned list of str, or the exception raised
    \* build_docker_image and _create_docker_build_ctx
    bpc,            \* position in the two functions
    bin,            \* the call's arguments and the environment it reads
    fs,             \* the file system: path -> entry
    dockerfile,     \* the local dockerfile: the generated text
    image_uri,      \* the local image_uri
    result_path,    \* _create_docker_build_ctx's local result_path
    ctx_exc,        \* the exception pending while the finally clause runs
    build_ctx_path, \* the local build_ctx_path
    remove_called,  \* whether os.remove(build_ctx_path) has been called
    blog,           \* what _logger.info recorded about the deletion
    bres,           \* the returned image, or the exception raised
    \* generate_docker_image, per calling thread, and the process environment
    gpc,        \* position of each thread's call
    gstderr,    \* the local stderr: the text accumulated so far
    gimage_id,  \* the local image_id: the list re.findall returned
    gres,       \* what the call returned or raised
    environ,    \* os.environ[DOCKER], or PyNone while unset
    budget,     \* calls the callers have still to make
    overlap,    \* history: a call has started while another was running
    last_ok     \* history: the identifier of the latest call that returned

cvars == <<cpc, cin, cmd, ci, cres>>

bvars == <<bpc, bin, fs, dockerfile, image_uri, result_path, ctx_exc,
           build_ctx_path, remove_called, blog, bres>>

gvars == <<gpc, gstderr, gimage_id, gres, environ, budget, overlap, last_ok>>

vars == <<cvars, bvars, gvars>>

----------------------------------------------------------------------------
(* Python values *)

PyNone == [t |-> "none"]
PyBool(b) == [t |-> "bool", b |-> b]
PyStr(s) == [t |-> "str", s |-> s]
PyInt(n) == [t |-> "int", n |-> n]

IsStr(v) == v.t = "str"

\* bool(v): the truth value Python gives v.
Truthy(v) ==
    CASE v.t = "none" -> FALSE
      [] v.t = "bool" -> v.b
      [] v.t = "str"  -> Len(v.s) > 0
      [] v.t = "int"  -> v.n # 0
      [] v.t = "dict" -> Len(v.items) > 0

\* str(v), as an f-string field or "{}".format(v) renders v.
Digits(n) ==
    CASE n = 0 -> <<"0">>
      [] n = 5 -> <<"5">>
      [] OTHER -> <<"<int>">>

Format(v) ==
    CASE v.t = "none" -> <<"None">>
      [] v.t = "bool" -> IF v.b THEN <<"True">> ELSE <<"False">>
      [] v.t = "str"  -> v.s
      [] v.t = "int"  -> Digits(v.n)

\* x or y
Or(x, y) == IF Truthy(x) THEN x ELSE y

RECURSIVE Concat(_)
Concat(ss) == IF ss = <<>> THEN <<>> ELSE Head(ss) \o Concat(Tail(ss))

\* s.split(sep) for a one-character sep: the fields between the separators.
RECURSIVE SplitFrom(_, _, _)
SplitFrom(s, sep, cur) ==
    IF s = <<>> THEN <<cur>>
    ELSE IF Head(s) = sep THEN <<cur>> \o SplitFrom(Tail(s), sep, <<>>)
    ELSE SplitFrom(Tail(s), sep, Append(cur, Head(s)))

Split(s, sep) == SplitFrom(s, sep, <<>>)

\* s.replace(old, new) for a one-character old.
RECURSIVE Replace(_, _, _)
Replace(s, old, new) ==
    IF s = <<>> THEN <<>>
    ELSE (IF Head(s) = old THEN new ELSE <<Head(s)>>) \o Replace(Tail(s), old, new)

----------------------------------------------------------------------------
(* shlex.quote, which six.moves.shlex_quote is on Python 3 *)

\* The characters outside [\w@%+=:,./-] that the modelled inputs contain.
UnsafeChars == {" ", "'", "\"", "\n", "(", ")", "{wandb_name}"}

FindUnsafe(s) == \E i \in 1..Len(s) : s[i] \in UnsafeChars

\* quote(v): "not s" is tested first, on any value; the regular expression
\* search that follows accepts only a str and raises TypeError otherwise.
QuoteRaises(v) == Truthy(v) /\ ~IsStr(v)

shlex_quote(v) ==
    IF ~Truthy(v) THEN <<"'", "'">>
    ELSE IF ~FindUnsafe(v.s) THEN v.s
    ELSE <<"'">> \o Replace(v.s, "'", <<"'", "\"", "'", "\"", "'">>) \o <<"'">>

Raised(kind) == [kind |-> kind]
Returned(v) == [kind |-> "return", value |-> v]

\* The variables of an entry point that a specification does not exercise.
CmdIdle ==
    /\ cpc = "idle" /\ cin = PyNone /\ cmd = <<>> /\ ci = 0 /\ cres = Raised("none")

BuildIdle ==
    /\ bpc = "idle" /\ bin = PyNone /\ fs = <<>> /\ dockerfile = <<>>
    /\ image_uri = <<>> /\ result_path = PyNone /\ ctx_exc = PyNone
    /\ build_ctx_path = PyNone /\ remove_called = FALSE /\ blog = <<>>
    /\ bres = Raised("none")

Threads == {1, 2}

GenIdle ==
    /\ gpc = [t \in Threads |-> "idle"]
    /\ gstderr = [t \in Threads |-> <<>>]
    /\ gimage_id = [t \in Threads |-> <<>>]
    /\ gres = [t \in Threads |-> Raised("none")]
    /\ environ = PyNone
    /\ budget = 0
    /\ overlap = FALSE
    /\ last_ok = PyNone

----------------------------------------------------------------------------
(* Module constants *)

_GENERATED_DOCKERFILE_NAME == "Dockerfile.wandb-autogenerated"
_PROJECT_TAR_ARCHIVE_NAME == "wandb-project-docker-build-context"
\* _project_spec.DEFAULT_CONFIG_PATH: a fixed relative file name.
DEFAULT_CONFIG_PATH == "launch_override_config.json"

----------------------------------------------------------------------------
(* get_docker_command: inputs *)

MaxArgs == 2

\* launch/utils.py: the base URLs known as a local server and as the
\* development server.
_is_wandb_local_uri(url) ==
    Len(url) >= 3 /\ url[1] \in {"http", "https"} /\ url[2] = ":" /\ url[3] = "//localhost"

_is_wandb_dev_uri(url) ==
    Len(url) >= 3 /\ url[1] \in {"http", "https"} /\ url[2] = ":" /\ url[3] = "//api.wandb.test"

BaseUrls ==
    { <<"http", ":", "//localhost", ":", "8080">>,
      <<"https", ":", "//localhost", ":", "9001">>,
      <<"http", ":", "//localhost">>,
      <<"http", ":", "//api.wandb.test">>,
      <<"https", ":", "//api.wandb.ai">> }

Platforms == {"darwin", "linux"}

ArgNames == { <<"t">>, <<"r", "m">>, <<"n", "e", "t">> }

ArgValues ==
    { PyBool(TRUE), PyBool(FALSE), PyStr(<<"host">>), PyStr(<<"a", " ", "b">>), PyInt(5) }

\* A dict in iteration order: a sequence of (name, value) with distinct names.
Dicts ==
    { d \in UNION { [1..n -> [name : ArgNames, value : ArgValues]] : n \in 0..MaxArgs } :
        \A i, j \in 1..Len(d) : i # j => d[i].name # d[j].name }

DockerArgs == {PyNone} \cup { [t |-> "dict", items |-> d] : d \in Dicts }

Projects ==
    [ target_project : { <<"proj">>, <<"my", " ", "proj">>, <<"it", "'", "s">> },
      target_entity  : { <<"ent">> },
      run_id         : { PyNone, PyStr(<<>>), PyStr(<<"r1">>) },
      docker_image   : { PyStr(<<"img">>) } ]

ImageTags == { <<>>, << <<"wandb_launch_r1">>, <<"other">> >> }

CmdInputs ==
    [ base_url : BaseUrls, platform : Platforms, api_key : { PyStr(<<"key">>) },
      project : Projects, tags : ImageTags, docker_args : DockerArgs ]

----------------------------------------------------------------------------
(* get_docker_command *)

\* bool(docker_args): None and the empty dict skip the loop.
ArgItems(a) == IF a.t = "dict" THEN a.items ELSE <<>>

\* Lines 215-221.  The unpacking "_, _, port = url.split(':')" raises
\* ValueError unless the URL holds exactly two ':'.
BaseUrlFirstBranch_AnyPlatform(url, platform) == _is_wandb_local_uri(url)

BaseUrlFirstBranch(url, platform) == _is_wandb_local_uri(url) /\ platform = "darwin"

BaseUrlRaises(url, platform) ==
    BaseUrlFirstBranch(url, platform) /\ Len(Split(url, ":")) # 3

ResolveBaseUrl(url, platform) ==
    IF BaseUrlFirstBranch(url, platform)
    THEN <<"http", ":", "//host.docker.internal", ":">> \o Split(url, ":")[3]
    ELSE IF _is_wandb_dev_uri(url)
    THEN <<"http", ":", "//host.docker.internal", ":", "9002">>
    ELSE url

\* Lines 223-240: the eight --env pairs, each value rendered by an f-string.
EnvNames_RunIdFirst ==
    << "WANDB_BASE_URL=", "WANDB_API_KEY=", "WANDB_PROJECT=", "WANDB_ENTITY=",
       "WANDB_RUN_ID=", "WANDB_LAUNCH=", "WANDB_LAUNCH_CONFIG_PATH=", "WANDB_DOCKER=" >>

EnvNames ==
    << "WANDB_BASE_URL=", "WANDB_API_KEY=", "WANDB_PROJECT=", "WANDB_ENTITY=",
       "WANDB_LAUNCH=", "WANDB_LAUNCH_CONFIG_PATH=", "WANDB_RUN_ID=", "WANDB_DOCKER=" >>

EnvValue(in, base_url, name) ==
    CASE name = "WANDB_BASE_URL=" -> PyStr(base_url)
      [] name = "WANDB_API_KEY=" -> in.api_key
      [] name = "WANDB_PROJECT=" -> PyStr(in.project.target_project)
      [] name = "WANDB_ENTITY=" -> PyStr(in.project.target_entity)
      [] name = "WANDB_LAUNCH=" -> PyBool(TRUE)
      [] name = "WANDB_LAUNCH_CONFIG_PATH=" -> PyStr(<<DEFAULT_CONFIG_PATH>>)
      [] name = "WANDB_RUN_ID=" -> Or(in.project.run_id, PyNone)
      [] name = "WANDB_DOCKER=" -> in.project.docker_image

RECURSIVE EnvFlagsFrom(_, _, _)
EnvFlagsFrom(in, base_url, k) ==
    IF k > Len(EnvNames) THEN <<>>
    ELSE << PyStr(<<"--env">>),
            PyStr(<<EnvNames[k]>> \o Format(EnvValue(in, base_url, EnvNames[k]))) >>
         \o EnvFlagsFrom(in, base_url, k + 1)

EnvFlags(in, base_url) == EnvFlagsFrom(in, base_url, 1)

\* Lines 245-255: the tokens one docker_args entry adds.
Flag(name) == IF Len(name) = 1 THEN <<"-">> \o name ELSE <<"--">> \o name

IsBareFlag(value) == value.t = "bool" /\ value.b

ArgTokens(name, value) ==
    IF IsBareFlag(value) THEN << PyStr(Flag(name)) >>
    ELSE << PyStr(Flag(name)), value >>

InitCmd ==
    /\ cpc = "start"
    /\ cin \in CmdInputs
    /\ cmd = <<>>
    /\ ci = 0
    /\ cres = Raised("none")
    /\ BuildIdle
    /\ GenIdle

\* Lines 212-240.
CmdStart ==
    /\ cpc = "start"
    /\ IF BaseUrlRaises(cin.base_url, cin.platform)
       THEN /\ cpc' = "raised"
            /\ cres' = Raised("ValueError")
            /\ cmd' = << PyStr(<<"docker">>), PyStr(<<"run">>), PyStr(<<"--rm">>) >>
       ELSE /\ cpc' = "args"
            /\ cmd' = << PyStr(<<"docker">>), PyStr(<<"run">>), PyStr(<<"--rm">>) >>
                      \o EnvFlags(cin, ResolveBaseUrl(cin.base_url, cin.platform))
            /\ cres' = cres
    /\ UNCHANGED <<cin, ci, bvars, gvars>>

\* Lines 243-255: one iteration of the loop over docker_args.items().
CmdArg ==
    /\ cpc = "args"
    /\ ci < Len(ArgItems(cin.docker_args))
    /\ LET item == ArgItems(cin.docker_args)[ci + 1]
       IN cmd' = cmd \o ArgTokens(item.name, item.value)
    /\ ci' = ci + 1
    /\ UNCHANGED <<cpc, cin, cres, bvars, gvars>>

\* Lines 257-258: image.tags[0] raises IndexError on an image without tags;
\* the comprehension quotes the elements in order and raises at the first
\* one shlex_quote rejects.
CmdFinish ==
    /\ cpc = "args"
    /\ ci = Len(ArgItems(cin.docker_args))
    /\ IF cin.tags = <<>>
       THEN /\ cpc' = "raised" /\ cres' = Raised("IndexError") /\ cmd' = cmd
       ELSE LET full == Append(cmd, PyStr(cin.tags[1]))
            IN /\ cmd' = full
               /\ IF \E i \in 1..Len(full) : QuoteRaises(full[i])
                  THEN cpc' = "raised" /\ cres' = Raised("TypeError")
                  ELSE /\ cpc' = "returned"
                       /\ cres' = Returned([i \in 1..Len(full) |-> shlex_quote(full[i])])
    /\ UNCHANGED <<cin, ci, bvars, gvars>>

NextCmd == CmdStart \/ CmdArg \/ CmdFinish

SpecCmd == InitCmd /\ [][NextCmd]_vars

----------------------------------------------------------------------------
(* get_docker_command: properties *)

\* How a POSIX shell reads one token: quotes removed, or not a single word.
RECURSIVE ShParse(_, _, _)
ShParse(s, mode, acc) ==
    IF s = <<>> THEN [ok |-> mode = "bare", word |-> acc]
    ELSE LET c == Head(s) IN
         CASE mode = "bare" /\ c = "'" -> ShParse(Tail(s), "single", acc)
           [] mode = "bare" /\ c = "\"" -> ShParse(Tail(s), "double", acc)
           [] mode = "bare" /\ c \in UnsafeChars \ {"'", "\""} -> [ok |-> FALSE, word |-> acc]
           [] mode = "single" /\ c = "'" -> ShParse(Tail(s), "bare", acc)
           [] mode = "double" /\ c = "\"" -> ShParse(Tail(s), "bare", acc)
           [] OTHER -> ShParse(Tail(s), mode, Append(acc, c))

\* The token is one shell word, and that word is w.
ShellWordIs(tok, w) ==
    tok # <<>> /\ ShParse(tok, "bare", <<>>) = [ok |-> TRUE, word |-> w]

IsShellWord(tok) == tok # <<>> /\ ShParse(tok, "bare", <<>>).ok

CmdReturned == cpc = "returned"

\* The tokens between the eight --env pairs and the final image tag.
ArgPart(r) == SubSeq(r, 20, Len(r) - 1)

\* The environment names in the order the claim lists them.
C9_Names ==
    << "WANDB_BASE_URL=", "WANDB_API_KEY=", "WANDB_PROJECT=", "WANDB_ENTITY=",
       "WANDB_LAUNCH=", "WANDB_LAUNCH_CONFIG_PATH=", "WANDB_RUN_ID=", "WANDB_DOCKER=" >>

RECURSIVE FlagsOf(_)
FlagsOf(toks) ==
    IF toks = <<>> THEN <<>>
    ELSE (IF Head(toks)[1] \in {"-", "--"} THEN <<Head(toks)>> ELSE <<>>) \o FlagsOf(Tail(toks))

\* C9: the returned list is docker, run, --rm; eight --env NAME=value pairs in
\* the fixed order (WANDB_RUN_ID=None when the run id is absent); then the
\* tokens of docker_args, one or two per entry, entry by entry; the image's
\* first tag last; every element a single shell word.
C9_CommandOrder ==
    CmdReturned =>
        LET r == cres.value
            items == ArgItems(cin.docker_args)
            word(i) == ShParse(r[i], "bare", <<>>).word
        IN /\ Len(r) >= 20
           /\ r[1] = <<"docker">> /\ r[2] = <<"run">> /\ r[3] = <<"--rm">>
           /\ \A k \in 1..8 :
                /\ r[2 + 2 * k] = <<"--env">>
                /\ word(3 + 2 * k)[1] = C9_Names[k]
           /\ ~Truthy(cin.project.run_id) => word(17) = <<"WANDB_RUN_ID=", "None">>
           /\ Truthy(cin.project.run_id) => word(17) = <<"WANDB_RUN_ID=">> \o cin.project.run_id.s
           /\ word(13) = <<"WANDB_LAUNCH=", "True">>
           /\ word(9) = <<"WANDB_PROJECT=">> \o cin.project.target_project
           /\ ShellWordIs(r[Len(r)], cin.tags[1])
           /\ Len(ArgPart(r)) >= Len(items) /\ Len(ArgPart(r)) <= 2 * Len(items)
           /\ FlagsOf(ArgPart(r)) = [i \in 1..Len(items) |-> Flag(items[i].name)]
           /\ \A i \in 1..Len(r) : IsShellWord(r[i])

C9_Witness ==
    /\ CmdReturned
    /\ Len(ArgItems(cin.docker_args)) = 2
    /\ cin.project.run_id = PyNone
    /\ cin.project.target_project = <<"my", " ", "proj">>
    /\ cres.value[9] = <<"'", "WANDB_PROJECT=", "my", " ", "proj", "'">>

\* The value the claim gives WANDB_BASE_URL, for a URL scheme://host[:port].
C8_Expected(url, platform) ==
    IF _is_wandb_local_uri(url) /\ platform = "darwin"
    THEN <<"http", ":", "//host.docker.internal", ":", url[5]>>
    ELSE IF _is_wandb_dev_uri(url)
    THEN <<"http", ":", "//host.docker.internal", ":", "9002">>
    ELSE url

\* C8: WANDB_BASE_URL is host.docker.internal with the URL's own port for a
\* local URL on darwin, host.docker.internal:9002 for a development URL
\* otherwise, and the configured URL unchanged in every other case; a local
\* URL that carries a port never fails the resolution.
C8_BaseUrl ==
    /\ CmdReturned =>
         ShellWordIs(cres.value[5],
                     <<"WANDB_BASE_URL=">> \o C8_Expected(cin.base_url, cin.platform))
    /\ (cpc = "raised" /\ cres.kind = "ValueError") =>
         /\ _is_wandb_local_uri(cin.base_url) /\ cin.platform = "darwin"
         /\ Len(cin.base_url) < 5

C8_Witness ==
    /\ CmdReturned
    /\ cin.platform = "darwin"
    /\ cin.base_url = <<"https", ":", "//localhost", ":", "9001">>
    /\ cres.value[5] = <<"WANDB_BASE_URL=", "http", ":", "//host.docker.internal", ":", "9001">>

\* The tokens the claim assigns to one docker_args entry.
C2_Expected(item) ==
    IF item.value = PyBool(TRUE) THEN << Flag(item.name) >>
    ELSE IF item.value = PyBool(FALSE) THEN <<>>
    ELSE << Flag(item.name), shlex_quote(PyStr(Format(item.value))) >>

\* C2: every docker_args entry yields one flag token for True, no token for
\* False, and the flag followed by the value otherwise, and a call whose
\* only unusual entries are False returns.
C2_ExtraFlags ==
    LET items == ArgItems(cin.docker_args) IN
    /\ CmdReturned =>
         ArgPart(cres.value) = Concat([i \in 1..Len(items) |-> C2_Expected(items[i])])
    /\ (cpc = "raised" /\ cres.kind = "TypeError") =>
         \E i \in 1..Len(items) : items[i].value.t \notin {"bool", "str"}

----------------------------------------------------------------------------
(* build_docker_image: inputs *)

PyDict(items) == [t |-> "dict", items |-> items]

OverrideConfigs ==
    { PyNone, PyDict(<<>>), PyDict(<< [name |-> <<"lr">>, value |-> PyInt(5)] >>) }

LaunchProjects ==
    [ project_dir     : { <<"proj">> },
      files           : { { <<"train.py">> }, { <<"train.py">>, <<DEFAULT_CONFIG_PATH>> } },
      override_config : OverrideConfigs,
      name            : { PyNone, PyStr(<<>>), PyStr(<<"my", " ", "run">>) },
      _runtime        : { PyNone, PyStr(<<"python-3.8">>) },
      run_id          : { PyNone, PyStr(<<"r", " ", "1">>) },
      last_commit     : { PyNone, PyStr(<<"a", "b", "c", "d", "e", "f", "0", "1", "2">>) } ]

BuildInputs ==
    [ launch_project : LaunchProjects,
      base_image     : { <<"python", ":", "3.8">>, <<"ubuntu">> },
      copy_code      : BOOLEAN,
      user           : { "alice" } ]

\* The names tempfile.mkdtemp and tempfile.mkstemp hand out.
TmpDir == <<"tmp", "tmpdir0">>
TmpFile == <<"tmp", "tmpfile0">>

----------------------------------------------------------------------------
(* File system *)

Dir == [k |-> "dir"]
SrcFile == [k |-> "src"]
EmptyFile == [k |-> "text", s |-> <<>>]
Text(s) == [k |-> "text", s |-> s]
Tar(members) == [k |-> "tar", members |-> members]

IsPrefix(p, q) == Len(p) <= Len(q) /\ SubSeq(q, 1, Len(p)) = p

Exists(f, p) == p \in DOMAIN f

Put(f, p, e) == [q \in DOMAIN f \cup {p} |-> IF q = p THEN e ELSE f[q]]

Remove(f, p) == [q \in DOMAIN f \ {p} |-> f[q]]

\* shutil.rmtree(d): d and everything below it.
rmtree(f, d) == [q \in { q \in DOMAIN f : ~IsPrefix(d, q) } |-> f[q]]

\* shutil.copytree(src, dst) in full.
copytree(f, src, dst) ==
    LET below == { q \in DOMAIN f : IsPrefix(src, q) }
        moved(q) == dst \o SubSeq(q, Len(src) + 1, Len(q))
    IN [r \in DOMAIN f \cup { moved(q) : q \in below } |->
          IF \E q \in below : moved(q) = r
          THEN f[CHOOSE q \in below : moved(q) = r]
          ELSE f[r]]

\* wandb.util.make_tarfile(output_filename, source_dir, archive_name): the
\* tree below source_dir, stored under the single top-level name.
make_tarfile(f, source_dir, archive_name) ==
    LET below == { q \in DOMAIN f : IsPrefix(source_dir, q) }
        member(q) == <<archive_name>> \o SubSeq(q, Len(source_dir) + 1, Len(q))
    IN Tar([m \in { member(q) : q \in below } |->
              f[CHOOSE q \in below : member(q) = m]])

\* json.dump(run_config, fp) for the configurations modelled.
RECURSIVE JsonItems(_)
JsonItems(items) ==
    IF items = <<>> THEN <<>>
    ELSE <<"\"">> \o Head(items).name \o <<"\"", ":", " ">> \o Format(Head(items).value)
         \o (IF Len(items) > 1 THEN <<",", " ">> ELSE <<>>) \o JsonItems(Tail(items))

json_dump(cfg) == <<"{">> \o JsonItems(cfg.items) \o <<"}">>

InitFs(project) ==
    LET paths == { <<"tmp">>, project.project_dir }
                 \cup { project.project_dir \o rel : rel \in project.files }
    IN [q \in paths |-> IF q \in { <<"tmp">>, project.project_dir } THEN Dir ELSE SrcFile]

----------------------------------------------------------------------------
(* build_docker_image, lines 130-161: the image URI and the Dockerfile text *)

Lit(s) == [lit |-> s]
Field(f) == [ph |-> f]

\* template.format(...): every replacement field gives way to str() of its
\* argument; the text put in is not scanned for fields again.
PyFormat(template, args) ==
    Concat([i \in 1..Len(template) |->
              IF "ph" \in DOMAIN template[i] THEN args[template[i].ph]
              ELSE <<template[i].lit>>])

\* Lines 261-274.
_get_docker_image_uri(name, last_commit) ==
    LET n == IF name # <<>> THEN Replace(name, " ", <<"-">>) ELSE <<"docker-project">>
        version_string ==
            IF Truthy(last_commit)
            THEN <<":">> \o SubSeq(last_commit.s, 1, IF Len(last_commit.s) < 7
                                                      THEN Len(last_commit.s) ELSE 7)
            ELSE <<>>
    IN n \o version_string

\* Line 137: os.path.join("/home/", getpass.getuser()).
Workdir(user) == <<"/home/", user>>

ConfigLineTriggered_NotNone(project) == project.override_config # PyNone

\* Line 138.
ConfigLineTriggered(project) == Truthy(project.override_config)

\* Lines 139-141.
copy_config_line(in) ==
    IF ConfigLineTriggered(in.launch_project)
    THEN PyFormat(<<Lit("COPY "), Field(1), Lit("/"), Field(2), Lit(" "), Field(3), Lit("\n")>>,
                  << <<_PROJECT_TAR_ARCHIVE_NAME>>, <<DEFAULT_CONFIG_PATH>>, Workdir(in.user) >>)
    ELSE <<>>

\* Lines 142-144.
copy_code_line(in) ==
    IF in.copy_code
    THEN PyFormat(<<Lit("COPY "), Field(1), Lit("/"), Lit(" "), Field(2), Lit("\n")>>,
                  << <<_PROJECT_TAR_ARCHIVE_NAME>>, Workdir(in.user) >>)
    ELSE <<>>

workdir_line(in) ==
    IF in.copy_code
    THEN PyFormat(<<Lit("WORKDIR "), Field(1), Lit("\n")>>, << Workdir(in.user) >>)
    ELSE <<>>

\* Lines 145-147: a plain string; nothing formats it.
name_line(in) ==
    IF Truthy(in.launch_project.name)
    THEN <<"ENV ", "WANDB_NAME", "=", "{wandb_name}", "\n">>
    ELSE <<>>

DockerfileTemplate_CodeFirst ==
    << Lit("FROM "), Field("imagename"), Lit("\n"), Field("copy_code_line"),
       Field("copy_config_line"), Field("workdir_line"), Field("name_line") >>

\* Lines 149-154.
DockerfileTemplate ==
    << Lit("FROM "), Field("imagename"), Lit("\n"), Field("copy_config_line"),
       Field("copy_code_line"), Field("workdir_line"), Field("name_line") >>

\* Lines 149-161.
GenerateDockerfile(in) ==
    PyFormat(DockerfileTemplate,
             [ imagename        |-> in.base_image,
               copy_config_line |-> copy_config_line(in),
               copy_code_line   |-> copy_code_line(in),
               workdir_line     |-> workdir_line(in),
               name_line        |-> name_line(in) ])

----------------------------------------------------------------------------
(* build_docker_image and _create_docker_build_ctx: the steps *)

DstPath == TmpDir \o <<"wandb-project-contents">>

InitBuild ==
    /\ CmdIdle
    /\ GenIdle
    /\ bpc = "start"
    /\ bin \in BuildInputs
    /\ fs = InitFs(bin.launch_project)
    /\ dockerfile = <<>>
    /\ image_uri = <<>>
    /\ result_path = PyNone
    /\ ctx_exc = PyNone
    /\ build_ctx_path = PyNone
    /\ remove_called = FALSE
    /\ blog = <<>>
    /\ bres = Raised("none")

\* Lines 130-161.
BuildStart ==
    /\ bpc = "start"
    /\ image_uri' = _get_docker_image_uri(
                        <<"wandb_launch_">> \o Format(bin.launch_project.run_id),
                        bin.launch_project.last_commit)
    /\ dockerfile' = GenerateDockerfile(bin)
    /\ bpc' = "mkdtemp"
    /\ UNCHANGED <<bin, fs, result_path, ctx_exc, build_ctx_path, remove_called,
                   blog, bres, cvars, gvars>>

\* Line 284, before the try block: a failure leaves build_docker_image at once.
CtxMkdtemp ==
    /\ bpc = "mkdtemp"
    /\ \E ok \in BOOLEAN :
         IF ok
         THEN fs' = Put(fs, TmpDir, Dir) /\ bpc' = "copytree" /\ bres' = bres
         ELSE fs' = fs /\ bpc' = "raised" /\ bres' = Raised("mkdtemp")
    /\ UNCHANGED <<bin, dockerfile, image_uri, result_path, ctx_exc, build_ctx_path,
                   remove_called, blog, cvars, gvars>>

\* A step inside the try block that fails: the exception is pending and the
\* finally clause runs next.
CtxFail(step, fsAfter) ==
    /\ fs' = fsAfter
    /\ ctx_exc' = Raised(step)
    /\ bpc' = "finally"

\* Line 287.
CtxCopytree ==
    /\ bpc = "copytree"
    /\ \E ok \in BOOLEAN, partial \in BOOLEAN :
         IF ok
         THEN /\ fs' = copytree(fs, bin.launch_project.project_dir, DstPath)
              /\ bpc' = "config" /\ ctx_exc' = ctx_exc
         ELSE CtxFail("copytree", IF partial THEN Put(fs, DstPath, Dir) ELSE fs)
    /\ UNCHANGED <<bin, dockerfile, image_uri, result_path, build_ctx_path,
                   remove_called, blog, bres, cvars, gvars>>

\* Lines 288-291.
CtxWriteConfig ==
    /\ bpc = "config"
    /\ LET run_config == bin.launch_project.override_config
           config_path == DstPath \o <<DEFAULT_CONFIG_PATH>>
       IN IF Truthy(run_config)
          THEN \E ok \in BOOLEAN, partial \in BOOLEAN :
                 IF ok
                 THEN /\ fs' = Put(fs, config_path, Text(json_dump(run_config)))
                      /\ bpc' = "runtime" /\ ctx_exc' = ctx_exc
                 ELSE CtxFail("config", IF partial THEN Put(fs, config_path, EmptyFile) ELSE fs)
          ELSE fs' = fs /\ bpc' = "runtime" /\ ctx_exc' = ctx_exc
    /\ UNCHANGED <<bin, dockerfile, image_uri, result_path, build_ctx_path,
                   remove_called, blog, bres, cvars, gvars>>

\* Lines 292-295.
CtxWriteRuntime ==
    /\ bpc = "runtime"
    /\ LET runtime == bin.launch_project._runtime
           runtime_path == DstPath \o <<"runtime.txt">>
       IN IF Truthy(runtime)
          THEN \E ok \in BOOLEAN, partial \in BOOLEAN :
                 IF ok
                 THEN /\ fs' = Put(fs, runtime_path, Text(runtime.s))
                      /\ bpc' = "dockerfile" /\ ctx_exc' = ctx_exc
                 ELSE CtxFail("runtime", IF partial THEN Put(fs, runtime_path, EmptyFile) ELSE fs)
          ELSE fs' = fs /\ bpc' = "dockerfile" /\ ctx_exc' = ctx_exc
    /\ UNCHANGED <<bin, dockerfile, image_uri, result_path, build_ctx_path,
                   remove_called, blog, bres, cvars, gvars>>

\* Lines 297-298.
CtxWriteDockerfile ==
    /\ bpc = "dockerfile"
    /\ LET path == DstPath \o <<_GENERATED_DOCKERFILE_NAME>>
       IN \E ok \in BOOLEAN, partial \in BOOLEAN :
            IF ok
            THEN /\ fs' = Put(fs, path, Text(dockerfile))
                 /\ bpc' = "mkstemp" /\ ctx_exc' = ctx_exc
            ELSE CtxFail("dockerfile", IF partial THEN Put(fs, path, EmptyFile) ELSE fs)
    /\ UNCHANGED <<bin, dockerfile, image_uri, result_path, build_ctx_path,
                   remove_called, blog, bres, cvars, gvars>>

\* Line 299.
CtxMkstemp ==
    /\ bpc = "mkstemp"
    /\ \E ok \in BOOLEAN :
         IF ok
         THEN /\ fs' = Put(fs, TmpFile, EmptyFile)
              /\ result_path' = [t |-> "path", p |-> TmpFile]
              /\ bpc' = "tar" /\ ctx_exc' = ctx_exc
         ELSE CtxFail("mkstemp", fs) /\ result_path' = result_path
    /\ UNCHANGED <<bin, dockerfile, image_uri, build_ctx_path, remove_called, blog,
                   bres, cvars, gvars>>

\* Lines 300-304.
CtxMakeTarfile ==
    /\ bpc = "tar"
    /\ \E ok \in BOOLEAN :
         IF ok
         THEN /\ fs' = Put(fs, result_path.p,
                           make_tarfile(fs, DstPath, _PROJECT_TAR_ARCHIVE_NAME))
              /\ bpc' = "finally" /\ ctx_exc' = ctx_exc
         ELSE CtxFail("make_tarfile", fs)
    /\ UNCHANGED <<bin, dockerfile, image_uri, result_path, build_ctx_path,
                   remove_called, blog, bres, cvars, gvars>>

CtxCleanup_OnSuccessOnly(f, exc) == IF exc = PyNone THEN rmtree(f, TmpDir) ELSE f

\* Lines 305-306.
CtxCleanup(f, exc) == rmtree(f, TmpDir)

\* Lines 305-307 and 162: the finally clause, then the pending exception
\* leaves both functions, or result_path is returned into build_ctx_path.
CtxFinally ==
    /\ bpc = "finally"
    /\ fs' = CtxCleanup(fs, ctx_exc)
    /\ IF ctx_exc # PyNone
       THEN bpc' = "raised" /\ bres' = ctx_exc /\ build_ctx_path' = build_ctx_path
       ELSE bpc' = "client" /\ bres' = bres /\ build_ctx_path' = result_path
    /\ UNCHANGED <<bin, dockerfile, image_uri, result_path, ctx_exc, remove_called,
                   blog, cvars, gvars>>

\* Lines 171-173: posixpath.join(a, b) for a relative b.
posixpath_join(a, b) == a \o <<"/">> \o b

\* Lines 168-176: the archive is opened, the local dockerfile is rebound to
\* the Dockerfile's path inside the archive, and the docker client is made.
\* A failure of docker.from_env() leaves the function from inside the with
\* block.
BuildClient ==
    /\ bpc = "client"
    /\ dockerfile' = posixpath_join(<<_PROJECT_TAR_ARCHIVE_NAME>>, <<_GENERATED_DOCKERFILE_NAME>>)
    /\ \E ok \in BOOLEAN :
         IF ok
         THEN bpc' = "build" /\ bres' = bres
         ELSE bpc' = "raised" /\ bres' = Raised("DockerException")
    /\ UNCHANGED <<bin, fs, image_uri, result_path, ctx_exc,
                   build_ctx_path, remove_called, blog, cvars, gvars>>

\* Lines 177-187: client.images.build returns, or raises ConnectionError,
\* which is raised again as LaunchError, or raises anything else, which
\* propagates as it is.
BuildImage ==
    /\ bpc = "build"
    /\ \E outcome \in {"ok", "ConnectionError", "BuildError"} :
         CASE outcome = "ok" -> bpc' = "remove" /\ bres' = bres
           [] outcome = "ConnectionError" -> bpc' = "raised" /\ bres' = Raised("LaunchError")
           [] outcome = "BuildError" -> bpc' = "raised" /\ bres' = Raised("BuildError")
    /\ UNCHANGED <<bin, fs, dockerfile, image_uri, result_path, ctx_exc,
                   build_ctx_path, remove_called, blog, cvars, gvars>>

\* Lines 189-194.
BuildRemove ==
    /\ bpc = "remove"
    /\ remove_called' = TRUE
    /\ \E ok \in BOOLEAN :
         IF ok
         THEN fs' = Remove(fs, build_ctx_path.p) /\ blog' = blog
         ELSE fs' = fs /\ blog' = Append(blog, "Temporary docker context file was not deleted.")
    /\ bpc' = "return"
    /\ UNCHANGED <<bin, dockerfile, image_uri, result_path, ctx_exc, build_ctx_path,
                   bres, cvars, gvars>>

\* Line 195.
BuildReturn ==
    /\ bpc = "return"
    /\ bpc' = "returned"
    /\ bres' = Returned([tags |-> <<image_uri>>])
    /\ UNCHANGED <<bin, fs, dockerfile, image_uri, result_path, ctx_exc,
                   build_ctx_path, remove_called, blog, cvars, gvars>>

NextBuild ==
    \/ BuildStart \/ CtxMkdtemp \/ CtxCopytree \/ CtxWriteConfig \/ CtxWriteRuntime
    \/ CtxWriteDockerfile \/ CtxMkstemp \/ CtxMakeTarfile \/ CtxFinally
    \/ BuildClient \/ BuildImage \/ BuildRemove \/ BuildReturn

SpecBuild == InitBuild /\ [][NextBuild]_vars

----------------------------------------------------------------------------
(* build_docker_image: properties *)

\* The positions at which the local dockerfile holds the generated text.
DockerfileGenerated ==
    bpc \in {"mkdtemp", "copytree", "config", "runtime", "dockerfile", "mkstemp",
             "tar", "finally", "client"}

\* The lines of a text, without their newlines.
TextLines(text) == SelectSeq(Split(text, "\n"), LAMBDA l : l # <<>>)

IndexOf(s, c) == CHOOSE i \in 1..Len(s) : s[i] = c /\ \A j \in 1..(i - 1) : s[j] # c

\* A slash-separated relative path as a path in the build context.
AsPath(s) ==
    LET comps == SelectSeq(Split(s, "/"), LAMBDA c : c # <<>>)
    IN [i \in 1..Len(comps) |-> comps[i][1]]

\* The source of a "COPY <src> <dst>" instruction as a path in the build context.
CopySource(line) ==
    AsPath(SubSeq(line, 2, IndexOf(line, " ") - 1))

CopyLines(text) == SelectSeq(TextLines(text), LAMBDA l : l[1] = "COPY ")

ConfigInArchive == <<"wandb-project-docker-build-context", "launch_override_config.json">>
CodeInArchive == <<"wandb-project-docker-build-context">>
DockerfileInArchive == <<"wandb-project-docker-build-context", "Dockerfile.wandb-autogenerated">>

ArchiveWritten == Exists(fs, TmpFile) /\ fs[TmpFile].k = "tar"

\* C1: once _create_docker_build_ctx has returned the archive, the build call
\* ending in any way (return, LaunchError from ConnectionError, any other
\* exception) is followed by os.remove on the archive before
\* build_docker_image returns or raises.
C1_ArchiveRemovalAttempted ==
    (/\ bpc \in {"returned", "raised"}
     /\ build_ctx_path # PyNone
     /\ bres.kind \in {"return", "LaunchError", "BuildError"})
    => remove_called

\* C3: the Dockerfile stored in the archive is the generated one and the
\* build call is pointed at it, every COPY source it names is a member of the
\* archive, the config source is the file json.dump wrote from the override
\* config, and the code source is the top-level directory holding the copy of
\* the project.
C3_DockerfilePathsInArchive ==
    ArchiveWritten =>
        LET m == fs[TmpFile].members
            copies == CopyLines(m[DockerfileInArchive].s)
            project == bin.launch_project
        IN /\ DockerfileInArchive \in DOMAIN m
           /\ m[DockerfileInArchive].k = "text"
           /\ DockerfileGenerated => m[DockerfileInArchive] = Text(dockerfile)
           /\ bpc = "build" => AsPath(dockerfile) = DockerfileInArchive
           /\ \A i \in 1..Len(copies) :
                /\ CopySource(copies[i]) \in DOMAIN m
                /\ CopySource(copies[i]) \in {ConfigInArchive, CodeInArchive}
                /\ CopySource(copies[i]) = ConfigInArchive =>
                     m[ConfigInArchive] = Text(json_dump(project.override_config))
                /\ CopySource(copies[i]) = CodeInArchive =>
                     /\ m[CodeInArchive] = Dir
                     /\ \A rel \in project.files : (CodeInArchive \o rel) \in DOMAIN m

C3_Witness ==
    /\ bpc = "build"
    /\ ArchiveWritten
    /\ Len(CopyLines(fs[TmpFile].members[DockerfileInArchive].s)) = 2
    /\ bin.launch_project.files = { <<"train.py">> }

DirectoryGone == \A q \in DOMAIN fs : ~IsPrefix(TmpDir, q)

\* C4: after _create_docker_build_ctx has left, by return or by an exception
\* from any step inside it, the temporary working directory does not exist;
\* after a return the archive file exists.
C4_WorkingDirectoryRemoved ==
    /\ bpc \in {"client", "build", "remove", "return", "returned", "raised"} => DirectoryGone
    /\ bpc \in {"client", "build"} =>
         /\ build_ctx_path = [t |-> "path", p |-> TmpFile]
         /\ ArchiveWritten

C4_Witness ==
    /\ bpc = "raised"
    /\ bres = Raised("make_tarfile")
    /\ DirectoryGone
    /\ Exists(fs, TmpFile)

\* The lines the claim names, as text.
C5_FromLine(in) == <<"FROM ">> \o in.base_image \o <<"\n">>
C5_ConfigLine(in) ==
    <<"COPY ", "wandb-project-docker-build-context", "/", "launch_override_config.json",
      " ", "/home/", in.user, "\n">>
C5_CodeLine(in) ==
    <<"COPY ", "wandb-project-docker-build-context", "/", " ", "/home/", in.user, "\n">>
C5_WorkdirLine(in) == <<"WORKDIR ", "/home/", in.user, "\n">>

IsEnvLine(s) ==
    /\ Len(s) >= 2 /\ s[1] = "ENV " /\ s[Len(s)] = "\n"
    /\ \A i \in 1..(Len(s) - 1) : s[i] # "\n"

\* C5: the Dockerfile text is the FROM line, then the config-copy line iff the
\* override config is non-empty, then the code-copy and WORKDIR lines iff the
\* copy flag is set, then one ENV line iff the name is non-empty, and nothing
\* else.
C5_DockerfileShape ==
    DockerfileGenerated =>
        LET project == bin.launch_project
            fixed == C5_FromLine(bin)
                     \o (IF Truthy(project.override_config) THEN C5_ConfigLine(bin) ELSE <<>>)
                     \o (IF bin.copy_code THEN C5_CodeLine(bin) \o C5_WorkdirLine(bin) ELSE <<>>)
            rest == SubSeq(dockerfile, Len(fixed) + 1, Len(dockerfile))
        IN /\ IsPrefix(fixed, dockerfile)
           /\ IF Truthy(project.name) THEN IsEnvLine(rest) ELSE rest = <<>>

C5_Witness ==
    /\ DockerfileGenerated
    /\ Truthy(bin.launch_project.override_config)
    /\ bin.copy_code
    /\ Truthy(bin.launch_project.name)
    /\ Len(TextLines(dockerfile)) = 5

\* C6: with a project name, the Dockerfile has the line ENV WANDB_NAME=<name>.
C6_EnvLineNamesRun ==
    (DockerfileGenerated /\ Truthy(bin.launch_project.name)) =>
        \E i \in 1..Len(TextLines(dockerfile)) :
            LET l == TextLines(dockerfile)[i]
            IN /\ Len(l) >= 3 /\ l[1] = "ENV " /\ l[2] = "WANDB_NAME" /\ l[3] = "="
               /\ SubSeq(l, 4, Len(l)) = bin.launch_project.name.s

----------------------------------------------------------------------------
(* generate_docker_image *)

MaxText == 5
MaxLine == 2
MaxCalls == 3

\* The pieces of repo2docker's stderr the code tells apart.
TAGGED == "Successfully tagged "
LATEST == ":latest"
REUSING == "Reusing existing image ("
CLOSE == ")"

Alphabet == {TAGGED, LATEST, REUSING, CLOSE, "myimage"}

\* A line as the iteration over process.stderr yields it: no newline inside,
\* one at the end unless the stream ended without it.
Bodies(n) == UNION { [1..k -> Alphabet] : k \in 0..n }

GenLines == { body \o nl : body \in Bodies(MaxLine), nl \in { <<>>, <<"\n">> } } \ { <<>> }

RaceLines ==
    { <<TAGGED, "x", LATEST, "\n">>, <<TAGGED, "y", LATEST, "\n">>, <<"Step 1/4", "\n">> }

\* s.rstrip("\n")
RECURSIVE rstrip(_)
rstrip(s) ==
    IF s # <<>> /\ s[Len(s)] = "\n" THEN rstrip(SubSeq(s, 1, Len(s) - 1)) ELSE s

\* Lines 81-83.
decoded_line(line) ==
    IF line # <<>> /\ line[Len(line)] = "\n" THEN rstrip(line) ELSE line

\* re.findall(open + "(.+)" + close, s): leftmost match first, the group
\* greedy, so it runs to the last close that leaves it non-empty; the scan
\* goes on after each match.  "." matches everything but a newline.
RECURSIVE findall(_, _, _)
findall(open, close, s) ==
    LET ends(i) == { j \in (i + 2)..Len(s) :
                       s[j] = close /\ \A k \in (i + 1)..(j - 1) : s[k] # "\n" }
        starts == { i \in 1..Len(s) : s[i] = open /\ ends(i) # {} }
    IN IF starts = {} THEN <<>>
       ELSE LET i == CHOOSE i \in starts : \A k \in starts : i <= k
                j == CHOOSE j \in ends(i) : \A k \in ends(i) : k <= j
            IN <<SubSeq(s, i + 1, j - 1)>> \o findall(open, close, SubSeq(s, j + 1, Len(s)))

FindImageId_ReusingFirst(stderr) ==
    IF findall(REUSING, CLOSE, stderr) # <<>>
    THEN findall(REUSING, CLOSE, stderr)
    ELSE findall(TAGGED, LATEST, stderr)

\* Lines 87-89.
FindImageId(stderr) ==
    IF findall(TAGGED, LATEST, stderr) # <<>>
    THEN findall(TAGGED, LATEST, stderr)
    ELSE findall(REUSING, CLOSE, stderr)

EnvAfterSuccess_SetDefault(env, id) == IF env = PyNone THEN PyStr(id) ELSE env

\* Line 92.
EnvAfterSuccess(env, id) == PyStr(id)

Running(t) == gpc[t] \in {"reading", "found", "set"}

InitGenCommon ==
    /\ CmdIdle
    /\ BuildIdle
    /\ gpc = [t \in Threads |-> "idle"]
    /\ gstderr = [t \in Threads |-> <<>>]
    /\ gimage_id = [t \in Threads |-> <<>>]
    /\ gres = [t \in Threads |-> Raised("none")]
    /\ environ = PyNone
    /\ overlap = FALSE
    /\ last_ok = PyNone

\* Lines 56-79: get_module raises when repo2docker is missing; otherwise the
\* subprocess is started and stderr is the empty string.
GenCall(t) ==
    /\ ~Running(t)
    /\ budget > 0
    /\ budget' = budget - 1
    /\ \E installed \in BOOLEAN :
         IF installed
         THEN /\ gpc' = [gpc EXCEPT ![t] = "reading"]
              /\ gres' = [gres EXCEPT ![t] = Raised("none")]
              /\ overlap' = (overlap \/ \E u \in Threads \ {t} : Running(u))
         ELSE /\ gpc' = [gpc EXCEPT ![t] = "raised"]
              /\ gres' = [gres EXCEPT ![t] = Raised("get_module")]
              /\ overlap' = overlap
    /\ gstderr' = [gstderr EXCEPT ![t] = <<>>]
    /\ gimage_id' = [gimage_id EXCEPT ![t] = <<>>]
    /\ UNCHANGED <<environ, last_ok, cvars, bvars>>

\* Lines 80-85: one iteration of the loop over process.stderr.
GenReadLine(t, line) ==
    /\ gpc[t] = "reading"
    /\ Len(gstderr[t]) + Len(decoded_line(line)) <= MaxText
    /\ gstderr' = [gstderr EXCEPT ![t] = gstderr[t] \o decoded_line(line)]
    /\ UNCHANGED <<gpc, gimage_id, gres, environ, budget, overlap, last_ok, cvars, bvars>>

\* Lines 86-89: the stream has ended; the two patterns are tried.
GenWait(t) ==
    /\ gpc[t] = "reading"
    /\ gimage_id' = [gimage_id EXCEPT ![t] = FindImageId(gstderr[t])]
    /\ gpc' = [gpc EXCEPT ![t] = "found"]
    /\ UNCHANGED <<gstderr, gres, environ, budget, overlap, last_ok, cvars, bvars>>

\* Lines 90-91.
GenRaise(t) ==
    /\ gpc[t] = "found"
    /\ gimage_id[t] = <<>>
    /\ gpc' = [gpc EXCEPT ![t] = "raised"]
    /\ gres' = [gres EXCEPT ![t] =
                  [kind |-> "LaunchError",
                   msg |-> <<"error running repo2docker: ">> \o gstderr[t]]]
    /\ UNCHANGED <<gstderr, gimage_id, environ, budget, overlap, last_ok, cvars, bvars>>

\* Line 92.
GenSetEnv(t) ==
    /\ gpc[t] = "found"
    /\ gimage_id[t] # <<>>
    /\ environ' = EnvAfterSuccess(environ, gimage_id[t][1])
    /\ gpc' = [gpc EXCEPT ![t] = "set"]
    /\ UNCHANGED <<gstderr, gimage_id, gres, budget, overlap, last_ok, cvars, bvars>>

\* Line 93.
GenReturn(t) ==
    /\ gpc[t] = "set"
    /\ gpc' = [gpc EXCEPT ![t] = "returned"]
    /\ gres' = [gres EXCEPT ![t] = Returned(gimage_id[t][1])]
    /\ last_ok' = PyStr(gimage_id[t][1])
    /\ UNCHANGED <<gstderr, gimage_id, environ, budget, overlap, cvars, bvars>>

\* One caller, one call, any stderr text.
InitGen == InitGenCommon /\ budget = 1

NextGen ==
    \/ GenCall(1)
    \/ \E line \in GenLines : GenReadLine(1, line)
    \/ GenWait(1)
    \/ GenRaise(1)
    \/ GenSetEnv(1)
    \/ GenReturn(1)

SpecGen == InitGen /\ [][NextGen]_vars

\* Two threads of one process, calling one after another or at once.
InitRace == InitGenCommon /\ budget = MaxCalls

NextRace ==
    \E t \in Threads :
        \/ GenCall(t)
        \/ \E line \in RaceLines : GenReadLine(t, line)
        \/ GenWait(t)
        \/ GenRaise(t)
        \/ GenSetEnv(t)
        \/ GenReturn(t)

SpecRace == InitRace /\ [][NextRace]_vars

----------------------------------------------------------------------------
(* generate_docker_image: properties *)

Contains(s, sub) ==
    \E k \in 1..(Len(s) - Len(sub) + 1) : SubSeq(s, k, k + Len(sub) - 1) = sub

\* The text holds open, then at least one character, then close.
Occurs(open, close, s) ==
    \E i, j \in 1..Len(s) : s[i] = open /\ s[j] = close /\ j >= i + 2

GenEnded(t) == gpc[t] \in {"returned", "raised"} /\ gres[t].kind # "get_module"

Quiescent == \A t \in Threads : ~Running(t)

\* C10: WANDB_DOCKER changes only where a call that found an identifier
\* stores it, and that call then returns the same identifier; while no two
\* calls have overlapped and none is running, the variable holds the
\* identifier of the latest call that returned (unset if none has), so a
\* failed call has left it as it was.
C10_EnvSideChannel ==
    /\ [][environ' # environ =>
            \E t \in Threads :
                /\ gpc[t] = "found" /\ gpc'[t] = "set"
                /\ gimage_id[t] # <<>>
                /\ environ' = PyStr(gimage_id[t][1])]_vars
    /\ [](\A t \in Threads :
            /\ gpc[t] = "set" => gimage_id[t] # <<>>
            /\ gpc[t] = "returned" => gres[t] = Returned(gimage_id[t][1]))
    /\ []((~overlap /\ Quiescent) => environ = last_ok)

\* The race: the latest call to return gave X, the variable holds the other
\* call's Y.
C10_Witness ==
    \E t, u \in Threads :
        /\ t # u
        /\ overlap
        /\ gpc[t] = "returned" /\ last_ok = PyStr(gres[t].value)
        /\ gpc[u] = "returned" /\ environ = PyStr(gres[u].value)
        /\ environ # last_ok

====
